---- MODULE Spec2Model ----
(***************************************************************************)
(* The Twitch IRC repeater of src/twitch_irc_repeater.py: one handler      *)
(* thread per accepted connection (TwitchIRCRepeater.listener), a shared   *)
(* registry (channel_clients, client_channels, client_addr) guarded by     *)
(* clients_lock, and the broadcast repeat_message.                         *)
(*                                                                         *)
(* Text is a sequence of one-character strings, so that startswith, split, *)
(* strip and the newline translation of the text stream are computed as    *)
(* Python computes them.  The fixed parts of the reply templates are       *)
(* multi-character units: nothing ever parses a reply.                     *)
(***************************************************************************)
EXTENDS Integers, Sequences, FiniteSets, TLC

\* ------------------------------------------------------------------ bounds

\* Total number of lines the handlers read from their peers.
MaxLines == 5

\* Connections that peers may reset.
MaxBreaks == 1

\* The accepted connections, each with its own handler thread.
Conn == {1, 2, 3}

\* ---------------------------------------------------------- text (Python str)

\* The characters str.split() and str.strip() treat as whitespace, among those
\* the input lines below are made of.
Whitespace == {" ", "\t", "\r", "\n"}

\* str.startswith
StartsWith(s, p) == Len(s) >= Len(p) /\ SubSeq(s, 1, Len(p)) = p

RECURSIVE LStrip(_)
LStrip(s) ==
    IF s # <<>> /\ Head(s) \in Whitespace THEN LStrip(Tail(s)) ELSE s

RECURSIVE RStrip(_)
RStrip(s) ==
    IF s # <<>> /\ s[Len(s)] \in Whitespace
    THEN RStrip(SubSeq(s, 1, Len(s) - 1)) ELSE s

\* str.strip()
Strip(s) == RStrip(LStrip(s))

\* The longest whitespace-free prefix of s.
RECURSIVE FirstToken(_)
FirstToken(s) ==
    IF s = <<>> \/ Head(s) \in Whitespace THEN <<>>
    ELSE <<Head(s)>> \o FirstToken(Tail(s))

\* str.split(maxsplit=n): at most n splits at runs of whitespace; what is left
\* after the n-th split is kept whole, its leading whitespace dropped.
RECURSIVE SplitMax(_, _)
SplitMax(s, n) ==
    LET t == LStrip(s)
        w == FirstToken(t)
    IN  IF t = <<>> THEN <<>>
        ELSE IF n = 0 THEN <<t>>
        ELSE <<w>> \o SplitMax(SubSeq(t, Len(w) + 1, Len(t)), n - 1)

\* str.split(): no limit on the number of splits.
Split(s) == SplitMax(s, Len(s))

\* The longest prefix of s that holds no sep.
RECURSIVE UntilSep(_, _)
UntilSep(s, sep) ==
    IF s = <<>> \/ Head(s) = sep THEN <<>>
    ELSE <<Head(s)>> \o UntilSep(Tail(s), sep)

\* str.split(sep) for a one-character separator: empty fields are kept.
RECURSIVE SplitOn(_, _)
SplitOn(s, sep) ==
    LET f == UntilSep(s, sep)
    IN  IF Len(f) = Len(s) THEN <<f>>
        ELSE <<f>> \o SplitOn(SubSeq(s, Len(f) + 2, Len(s)), sep)

\* [x.strip() for x in xs]
StripAll(xs) == [i \in 1..Len(xs) |-> Strip(xs[i])]

\* The text stream is opened with newline="\r\n": on output every "\n" written
\* is translated to "\r\n".
RECURSIVE Translate(_)
Translate(s) ==
    IF s = <<>> THEN <<>>
    ELSE (IF Head(s) = "\n" THEN <<"\r", "\n">> ELSE <<Head(s)>>)
         \o Translate(Tail(s))

\* print(msg, file=c): msg and a "\n" written to the text stream c.
PyPrint(msg) == Translate(msg \o <<"\n">>)

\* irc_stream.write(msg)
StreamWrite(msg) == Translate(msg)

\* ------------------------------------------------------------- templates

NICKNAME == "{nickname}"
CHANNEL == "{channel}"

MSG_AUTH_SUCC ==
    << ":tmi.twitch.tv 001 ", NICKNAME, " :Welcome, GLHF!", "\n",
       ":tmi.twitch.tv 002 ", NICKNAME, " :Your host is tmi.twitch.tv", "\n",
       ":tmi.twitch.tv 003 ", NICKNAME, " :This server is rather new", "\n",
       ":tmi.twitch.tv 004 ", NICKNAME, " :-", "\n",
       ":tmi.twitch.tv 375 ", NICKNAME, " :-", "\n",
       ":tmi.twitch.tv 372 ", NICKNAME,
           " :You are in a maze of twisty passages, all alike.", "\n",
       ":tmi.twitch.tv 376 ", NICKNAME, " :>", "\n" >>

MSG_AUTH_FAIL ==
    << ":tmi.twitch.tv NOTICE * :Login authentication failed", "\n" >>

MSG_AUTH_INCORRECT_ORDER ==
    << ":tmi.twitch.tv NOTICE * :Improperly formatted auth", "\n" >>

MSG_JOIN_SUCC ==
    << ":", NICKNAME, "!", NICKNAME, "@", NICKNAME, ".tmi.twitch.tv JOIN ",
       CHANNEL, "\n",
       ":", NICKNAME, ".tmi.twitch.tv 353 ", NICKNAME, " = ", CHANNEL, " :",
       NICKNAME, "\n" >>

\* str.format(nickname=..., channel=...): each field replaced by its value.
RECURSIVE Format(_, _, _)
Format(tpl, nickname, channel) ==
    IF tpl = <<>> THEN <<>>
    ELSE (CASE Head(tpl) = NICKNAME -> nickname
            [] Head(tpl) = CHANNEL -> channel
            [] OTHER -> <<Head(tpl)>>)
         \o Format(Tail(tpl), nickname, channel)

\* ----------------------------------------------------------- input lines

L_FWD_A ==
    <<":", "o", " ", "P", "R", "I", "V", "M", "S", "G", " ", "#", "a", " ", "h", "i", " ", "y", "o", "\r", "\n">>
L_FWD_NOHASH ==
    <<":", "o", " ", "P", "R", "I", "V", "M", "S", "G", " ", "a", " ", "h", "i", "\r", "\n">>
L_FWD_SHORT ==
    <<":", "o", " ", "P", "R", "I", "V", "M", "S", "G", " ", "#", "a", "\r", "\n">>
L_FWD_NOTICE ==
    <<":", "o", " ", "N", "O", "T", "I", "C", "E", " ", "#", "a", " ", "h", "i", "\r", "\n">>
L_PASS ==
    <<"P", "A", "S", "S", " ", "p", "\r", "\n">>
L_NICK_A ==
    <<"N", "I", "C", "K", " ", "a", "\r", "\n">>
L_NICK_B ==
    <<"N", "I", "C", "K", " ", "b", "\r", "\n">>
L_NICK_ONLY ==
    <<"N", "I", "C", "K", "\r", "\n">>
L_USER_A ==
    <<"U", "S", "E", "R", " ", "a", "\r", "\n">>
L_JOIN_AB ==
    <<"J", "O", "I", "N", " ", "#", "a", ",", "#", "b", "\r", "\n">>
L_JOIN_ONLY ==
    <<"J", "O", "I", "N", "\r", "\n">>
L_JOINT ==
    <<"J", "O", "I", "N", "T", " ", "#", "a", "\r", "\n">>
L_JOIN_ODD ==
    <<"J", "O", "I", "N", " ", "b", ",", ",", "b", "\r", "\n">>

L_PING ==
    <<"P", "I", "N", "G", "\r", "\n">>

\* The lines a peer may send.  Each is one item of the line iterator of the
\* text stream: it ends with the terminator "\r\n" and holds no other one.
Lines ==
    { L_FWD_A, L_FWD_NOHASH, L_FWD_SHORT, L_FWD_NOTICE,
      L_PASS, L_NICK_A, L_NICK_B, L_NICK_ONLY, L_USER_A,
      L_JOIN_AB, L_JOIN_ONLY, L_JOINT, L_PING }

COLON == <<":">>
HASH == <<"#">>
PASS == <<"P", "A", "S", "S">>
NICK == <<"N", "I", "C", "K">>
JOIN == <<"J", "O", "I", "N">>
PRIVMSG == <<"P", "R", "I", "V", "M", "S", "G">>

\* nickname = None; an empty nickname is as false as None, and split() never
\* yields an empty token.
None == <<>>

\* (address[0], address[1]) of an accepted connection.
Addr(c) == <<"127.0.0.1", 50000 + c>>

\* ------------------------------------------------------------------ state

VARIABLES
    pc,               \* pc[c]: where the handler thread of connection c is
    nickname,         \* nickname[c]: the handler's local variable
    pending,          \* pending[c]: the channels of a JOIN not yet subscribed
    channel_clients,  \* the registry: channel -> set of connections
    client_channels,  \* the registry: connection -> set of channels
    client_addr,      \* the registry: connection -> address
    out,              \* out[c]: what has been written and flushed to c
    broken,           \* broken[c]: the peer reset c; reads and writes raise
    nread,            \* the number of lines read so far
    last,             \* the step just taken
    lastline,         \* the line that step took off the stream, None if none
    lock,             \* the handler that holds clients_lock, 0 when free
    writing,          \* writing[s]: the handlers in a write to the stream of s
    todo,             \* todo[c]: subscribers the loop of line 49 has yet to visit
    fwd               \* fwd[c]: the line c is in repeat_message with

vars == << pc, nickname, pending, channel_clients, client_channels,
           client_addr, out, broken, nread, last, lastline,
           lock, writing, todo, fwd >>

\* The lock and the calls in progress.
locking == << lock, writing, todo, fwd >>

registry == << channel_clients, client_channels, client_addr >>

\* ------------------------------------------------------------- registry

\* A dict is a function on its keys.
EmptyDict == [k \in {} |-> {}]

Put(d, k, v) == [x \in DOMAIN d \cup {k} |-> IF x = k THEN v ELSE d[x]]

\* defaultdict(set): a missing key reads as the empty set.
Get(d, k) == IF k \in DOMAIN d THEN d[k] ELSE {}

\* The three maps as one value.
Registry ==
    [ channel_clients |-> channel_clients,
      client_channels |-> client_channels,
      client_addr |-> client_addr ]

SetRegistry(reg) ==
    /\ channel_clients' = reg.channel_clients
    /\ client_channels' = reg.client_channels
    /\ client_addr' = reg.client_addr

\* subscribe_channel without line 58: the connection's own channel set is not
\* updated.
subscribe_channel_noReverse(reg, io, addr, channel) ==
    [ channel_clients |->
          Put(reg.channel_clients, channel,
              Get(reg.channel_clients, channel) \cup {io}),
      client_channels |->
          Put(reg.client_channels, io, Get(reg.client_channels, io)),
      client_addr |-> Put(reg.client_addr, io, addr) ]

\* subscribe_channel with a membership that a second call undoes: the
\* channel's set has io taken out when it is already in.
subscribe_channel_toggle(reg, io, addr, channel) ==
    [ channel_clients |->
          Put(reg.channel_clients, channel,
              IF io \in Get(reg.channel_clients, channel)
              THEN Get(reg.channel_clients, channel) \ {io}
              ELSE Get(reg.channel_clients, channel) \cup {io}),
      client_channels |->
          Put(reg.client_channels, io,
              Get(reg.client_channels, io) \cup {channel}),
      client_addr |-> Put(reg.client_addr, io, addr) ]

\* subscribe_channel(subscriber_io, subscriber_addr, channel), under the lock.
subscribe_channel(reg, io, addr, channel) ==
    [ channel_clients |->
          Put(reg.channel_clients, channel,
              Get(reg.channel_clients, channel) \cup {io}),
      client_channels |->
          Put(reg.client_channels, io,
              Get(reg.client_channels, io) \cup {channel}),
      client_addr |-> Put(reg.client_addr, io, addr) ]

\* remove_subscriber without lines 66-67: a channel left empty stays.
remove_subscriber_keepEmpty(reg, io) ==
    IF io \in DOMAIN reg.client_channels
    THEN LET mine == reg.client_channels[io]
         IN  [ channel_clients |->
                   [ch \in DOMAIN reg.channel_clients |->
                       IF ch \in mine THEN reg.channel_clients[ch] \ {io}
                       ELSE reg.channel_clients[ch]],
               client_channels |->
                   [x \in DOMAIN reg.client_channels \ {io} |->
                       reg.client_channels[x]],
               client_addr |->
                   [x \in DOMAIN reg.client_addr \ {io} |-> reg.client_addr[x]] ]
    ELSE reg

\* remove_subscriber(subscriber_io), under the lock: io leaves each of its
\* channels, a channel left empty is deleted, then io's own entries go.
\* (set.remove would raise were io missing from one of its channels: see
\* RemoveNeverRaises.)
remove_subscriber(reg, io) ==
    IF io \in DOMAIN reg.client_channels
    THEN LET mine == reg.client_channels[io]
             kept == { ch \in DOMAIN reg.channel_clients :
                         ~(ch \in mine /\ reg.channel_clients[ch] \ {io} = {}) }
         IN  [ channel_clients |->
                   [ch \in kept |->
                       IF ch \in mine THEN reg.channel_clients[ch] \ {io}
                       ELSE reg.channel_clients[ch]],
               client_channels |->
                   [x \in DOMAIN reg.client_channels \ {io} |->
                       reg.client_channels[x]],
               client_addr |->
                   [x \in DOMAIN reg.client_addr \ {io} |-> reg.client_addr[x]] ]
    ELSE reg

\* The orders in which "for c in self.channel_clients[channel]" may visit a set.
Orderings(S) ==
    { f \in [1..Cardinality(S) -> S] :
        \A i, j \in 1..Cardinality(S) : i # j => f[i] # f[j] }

\* The subscribers repeat_message iterates over.
Subscribers(reg, channel) ==
    IF channel \in DOMAIN reg.channel_clients
    THEN reg.channel_clients[channel] ELSE {}

\* The first position of order whose write raises: print and flush to a broken
\* connection raise, and so does the address lookup of a connection without a
\* recorded address.  Len(order) + 1 when none raises.
RECURSIVE FirstRaise(_, _, _, _)
FirstRaise(order, i, brk, reg) ==
    IF i > Len(order) THEN i
    ELSE IF brk[order[i]] \/ order[i] \notin DOMAIN reg.client_addr THEN i
    ELSE FirstRaise(order, i + 1, brk, reg)

\* repeat_message(channel, msg), under the lock, visiting the subscribers in
\* order: what each stream holds afterwards, and whether an exception left
\* the loop.
repeat_message(reg, channel, msg, order, o, brk) ==
    LET k == FirstRaise(order, 1, brk, reg)
        written == { order[i] : i \in 1..(k - 1) }
                   \cup (IF k <= Len(order) /\ ~brk[order[k]]
                         THEN {order[k]} ELSE {})
    IN  [ out |-> [c \in Conn |->
                      IF c \in written THEN o[c] \o PyPrint(msg) ELSE o[c]],
          raised |-> k <= Len(order) ]

Init ==
    /\ pc = [c \in Conn |-> "loop"]
    /\ nickname = [c \in Conn |-> None]
    /\ pending = [c \in Conn |-> <<>>]
    /\ channel_clients = EmptyDict
    /\ client_channels = EmptyDict
    /\ client_addr = EmptyDict
    /\ out = [c \in Conn |-> <<>>]
    /\ broken = [c \in Conn |-> FALSE]
    /\ nread = 0
    /\ last = [ev |-> "Init", conn |-> 0, from |-> "none"]
    /\ lastline = None
    /\ lock = 0
    /\ writing = [c \in Conn |-> {}]
    /\ todo = [c \in Conn |-> <<>>]
    /\ fwd = [c \in Conn |-> None]

\* ---------------------------------------------------------------- handler

\* The handler's local variables and position change; nothing else does.
Goto(c, where) == pc' = [pc EXCEPT ![c] = where]

\* irc_stream_reply(msg) on c's own stream.
Reply(c, msg) == out' = [out EXCEPT ![c] = out[c] \o StreamWrite(msg)]

\* The step just taken: which action, by which handler, from where.
StepLine(ev, c, line) ==
    /\ last' = [ev |-> ev, conn |-> c, from |-> pc[c]]
    /\ lastline' = line
    /\ UNCHANGED locking

Step(ev, c) == StepLine(ev, c, None)

\* HandleForward without the assert of line 100: a channel without "#" is
\* broadcast to like any other.
HandleForward_noAssert(c, line) ==
    LET line_split == StripAll(SplitMax(line, 3))
    IN  /\ UNCHANGED << nickname, pending, registry >>
        /\ IF Len(line_split) = 4 /\ line_split[2] = PRIVMSG
           THEN LET channel == line_split[3]
                IN  \E order \in Orderings(Subscribers(Registry, channel)) :
                        LET r == repeat_message(Registry, channel, line,
                                                order, out, broken)
                        IN  /\ out' = r.out
                            /\ Goto(c, IF r.raised THEN "finally" ELSE "loop")
           ELSE UNCHANGED << pc, out >>

\* HandleForward with a role check the code does not have: a connection that
\* has a nickname is a consumer and its ":" lines are dropped.
HandleForward_consumerSilent(c, line) ==
    LET line_split == StripAll(SplitMax(line, 3))
    IN  /\ UNCHANGED << nickname, pending, registry >>
        /\ IF nickname[c] = None /\ Len(line_split) = 4 /\ line_split[2] = PRIVMSG
           THEN LET channel == line_split[3]
                IN  IF ~StartsWith(channel, HASH)
                    THEN /\ Goto(c, "finally")
                         /\ UNCHANGED out
                    ELSE \E order \in Orderings(Subscribers(Registry, channel)) :
                            LET r == repeat_message(Registry, channel, line,
                                                    order, out, broken)
                            IN  /\ out' = r.out
                                /\ Goto(c, IF r.raised THEN "finally" ELSE "loop")
           ELSE UNCHANGED << pc, out >>

\* HandleForward with an else branch line 98 does not have: a line that is
\* not a four-field PRIVMSG raises.
HandleForward_strict(c, line) ==
    LET line_split == StripAll(SplitMax(line, 3))
    IN  /\ UNCHANGED << nickname, pending, registry >>
        /\ IF Len(line_split) = 4 /\ line_split[2] = PRIVMSG
           THEN LET channel == line_split[3]
                IN  IF ~StartsWith(channel, HASH)
                    THEN /\ Goto(c, "finally")
                         /\ UNCHANGED out
                    ELSE \E order \in Orderings(Subscribers(Registry, channel)) :
                            LET r == repeat_message(Registry, channel, line,
                                                    order, out, broken)
                            IN  /\ out' = r.out
                                /\ Goto(c, IF r.raised THEN "finally" ELSE "loop")
           ELSE /\ Goto(c, "finally")
                /\ UNCHANGED out

\* Lines 95-101: a line starting with ":" is a message to forward.
HandleForward(c, line) ==
    LET line_split == StripAll(SplitMax(line, 3))
    IN  /\ UNCHANGED << nickname, pending, registry >>
        /\ IF Len(line_split) = 4 /\ line_split[2] = PRIVMSG
           THEN LET channel == line_split[3]
                IN  IF ~StartsWith(channel, HASH)
                    THEN \* the assert raises
                         /\ Goto(c, "finally")
                         /\ UNCHANGED out
                    ELSE \E order \in Orderings(Subscribers(Registry, channel)) :
                            LET r == repeat_message(Registry, channel, line,
                                                    order, out, broken)
                            IN  /\ out' = r.out
                                /\ Goto(c, IF r.raised THEN "finally" ELSE "loop")
           ELSE UNCHANGED << pc, out >>

\* HandlePass without the check of line 107: every PASS line starts a new
\* authentication.
HandlePass_noCheck(c, line) ==
    /\ UNCHANGED << nickname, pending, registry, out >>
    /\ Goto(c, "nick")

\* Lines 105-110: a line starting with "PASS".  With a nickname already set
\* the client is dropped; otherwise the handler goes on to read the NICK line.
HandlePass(c, line) ==
    /\ UNCHANGED << nickname, pending, registry >>
    /\ IF nickname[c] # None
       THEN /\ Reply(c, MSG_AUTH_FAIL)
            /\ Goto(c, "finally")
       ELSE /\ Goto(c, "nick")
            /\ UNCHANGED out

\* HandleJoin without the check of lines 119-120: a connection without a
\* nickname may join.
HandleJoin_noNickCheck(c, line) ==
    LET join_line == StripAll(Split(line))
    IN  /\ UNCHANGED << nickname, registry, out >>
        /\ IF Len(join_line) # 2 \/ join_line[1] # JOIN
           THEN Goto(c, "finally") /\ UNCHANGED pending
           ELSE /\ pending' = [pending EXCEPT
                                 ![c] = StripAll(SplitOn(join_line[2], ","))]
                /\ Goto(c, "join_subscribe")

\* Lines 117-124: a line starting with "JOIN".
HandleJoin(c, line) ==
    LET join_line == StripAll(Split(line))
    IN  /\ UNCHANGED << nickname, registry, out >>
        /\ IF nickname[c] = None
           THEN Goto(c, "finally") /\ UNCHANGED pending
           ELSE IF Len(join_line) # 2 \/ join_line[1] # JOIN
           THEN Goto(c, "finally") /\ UNCHANGED pending
           ELSE /\ pending' = [pending EXCEPT
                                 ![c] = StripAll(SplitOn(join_line[2], ","))]
                /\ Goto(c, "join_subscribe")

\* ReadLine with a default case the match of lines 104-128 does not have: a
\* line that is neither a forward, a PASS nor a JOIN raises.
ReadLine_strict(c, line) ==
    /\ pc[c] = "loop"
    /\ ~broken[c]
    /\ nread < MaxLines
    /\ nread' = nread + 1
    /\ UNCHANGED broken
    /\ StepLine("ReadLine", c, line)
    /\ IF StartsWith(line, COLON) THEN HandleForward(c, line)
       ELSE IF StartsWith(line, PASS) THEN HandlePass(c, line)
       ELSE IF StartsWith(line, JOIN) THEN HandleJoin(c, line)
       ELSE /\ Goto(c, "finally")
            /\ UNCHANGED << nickname, pending, registry, out >>

\* Lines 94-128: the handler of c takes the next line off its stream.
ReadLine(c, line) ==
    /\ pc[c] = "loop"
    /\ ~broken[c]
    /\ nread < MaxLines
    /\ nread' = nread + 1
    /\ UNCHANGED broken
    /\ StepLine("ReadLine", c, line)
    /\ IF StartsWith(line, COLON) THEN HandleForward(c, line)
       ELSE IF StartsWith(line, PASS) THEN HandlePass(c, line)
       ELSE IF StartsWith(line, JOIN) THEN HandleJoin(c, line)
       ELSE UNCHANGED << pc, nickname, pending, registry, out >>

\* Line 111 without the keyword test: any two tokens pass.
NickLineOk_anyKeyword(nick_line) == Len(nick_line) = 2

\* Line 111: the line after PASS is exactly the two tokens NICK <nickname>.
NickLineOk(nick_line) == Len(nick_line) = 2 /\ nick_line[1] = NICK

\* Line 116 without the "#".
AuthChannel_noHash(nick) == nick

\* Line 116: f"#{nickname}", the channel a connection joins on authentication.
AuthChannel(nick) == HASH \o nick

\* Lines 110-116: next(line_iter) after a PASS line returns the next line.
ReadNick(c, line) ==
    LET nick_line == StripAll(Split(line))
    IN  /\ pc[c] = "nick"
        /\ ~broken[c]
        /\ nread < MaxLines
        /\ nread' = nread + 1
        /\ UNCHANGED << broken, pending >>
        /\ StepLine("ReadNick", c, line)
        /\ IF ~NickLineOk(nick_line)
           THEN /\ Reply(c, MSG_AUTH_INCORRECT_ORDER)
                /\ Goto(c, "finally")
                /\ UNCHANGED << nickname, registry >>
           ELSE /\ nickname' = [nickname EXCEPT ![c] = nick_line[2]]
                /\ Reply(c, Format(MSG_AUTH_SUCC, nick_line[2], <<>>))
                /\ SetRegistry(subscribe_channel(Registry, c, Addr(c),
                                                 AuthChannel(nick_line[2])))
                /\ Goto(c, "loop")

\* JoinSubscribe with a check the code does not have: an entry without the "#"
\* is subscribed with one put before it.
JoinSubscribe_prefixed(c) ==
    /\ pc[c] = "join_subscribe"
    /\ SetRegistry(subscribe_channel(Registry, c, Addr(c),
                       IF StartsWith(Head(pending[c]), HASH)
                       THEN Head(pending[c]) ELSE HASH \o Head(pending[c])))
    /\ Goto(c, "join_reply")
    /\ Step("JoinSubscribe", c)
    /\ UNCHANGED << nickname, pending, out, broken, nread >>

\* Lines 126-127: the next channel of the JOIN is subscribed.
JoinSubscribe(c) ==
    /\ pc[c] = "join_subscribe"
    /\ SetRegistry(subscribe_channel(Registry, c, Addr(c), Head(pending[c])))
    /\ Goto(c, "join_reply")
    /\ Step("JoinSubscribe", c)
    /\ UNCHANGED << nickname, pending, out, broken, nread >>

\* Line 128: the join banner of that channel is written to c, which raises
\* when the connection is broken.
JoinReply(c) ==
    /\ pc[c] = "join_reply"
    /\ Step("JoinReply", c)
    /\ UNCHANGED << nickname, registry, broken, nread >>
    /\ IF broken[c]
       THEN /\ Goto(c, "finally")
            /\ pending' = [pending EXCEPT ![c] = <<>>]
            /\ UNCHANGED out
       ELSE /\ Reply(c, Format(MSG_JOIN_SUCC, nickname[c], Head(pending[c])))
            /\ pending' = [pending EXCEPT ![c] = Tail(pending[c])]
            /\ Goto(c, IF Tail(pending[c]) = <<>> THEN "loop"
                       ELSE "join_subscribe")

\* Eof with the notice of line 112 sent when the stream ends in place of the
\* NICK line.
Eof_notice(c) ==
    /\ pc[c] \in {"loop", "nick"}
    /\ ~broken[c]
    /\ Goto(c, "finally")
    /\ Step("Eof", c)
    /\ IF pc[c] = "nick" THEN Reply(c, MSG_AUTH_INCORRECT_ORDER)
       ELSE UNCHANGED out
    /\ UNCHANGED << nickname, pending, registry, broken, nread >>

\* The stream ends: the for loop of line 94 ends, or next(line_iter) of line
\* 110 raises StopIteration, which line 129 catches.
Eof(c) ==
    /\ pc[c] \in {"loop", "nick"}
    /\ ~broken[c]
    /\ Goto(c, "finally")
    /\ Step("Eof", c)
    /\ UNCHANGED << nickname, pending, registry, out, broken, nread >>

\* Reading from a broken connection raises, which line 129 catches.
ReadError(c) ==
    /\ pc[c] \in {"loop", "nick"}
    /\ broken[c]
    /\ Goto(c, "finally")
    /\ Step("ReadError", c)
    /\ UNCHANGED << nickname, pending, registry, out, broken, nread >>

\* The peer resets a connection that is in the registry: from then on a write
\* to it raises, whichever handler writes, and so does its handler's next
\* read.  (The reset of a connection outside the registry reaches nobody but
\* its own handler, at its next read, where it ends the handler as Eof does.)
Break(c) ==
    /\ pc[c] # "closed"
    /\ ~broken[c]
    /\ Cardinality({d \in Conn : broken[d]}) < MaxBreaks
    /\ c \in DOMAIN client_addr
    /\ broken' = [broken EXCEPT ![c] = TRUE]
    /\ Step("Break", c)
    /\ UNCHANGED << pc, nickname, pending, registry, out, nread >>

\* Lines 131-135: finally, the handler removes its connection from the
\* registry, closes the stream and the socket, and returns.
RemoveSubscriber(c) ==
    /\ pc[c] = "finally"
    /\ SetRegistry(remove_subscriber(Registry, c))
    /\ Goto(c, "closed")
    /\ Step("RemoveSubscriber", c)
    /\ UNCHANGED << nickname, pending, out, broken, nread >>

Next ==
    \E c \in Conn :
        \/ \E line \in Lines : ReadLine(c, line)
        \/ \E line \in Lines : ReadNick(c, line)
        \/ JoinSubscribe(c)
        \/ JoinReply(c)
        \/ Eof(c)
        \/ ReadError(c)
        \/ Break(c)
        \/ RemoveSubscriber(c)

Spec == Init /\ [][Next]_vars

\* The lines of a run of consumers that authenticate and join: the handler of
\* Next, fed these lines only, among them a JOIN whose list has an entry
\* without "#", an empty entry and an entry twice.
JoinRunLines == { L_PASS, L_NICK_A, L_NICK_B, L_JOIN_AB, L_JOIN_ODD }

NextJoin ==
    \E c \in Conn :
        \/ \E line \in JoinRunLines : ReadLine(c, line)
        \/ \E line \in JoinRunLines : ReadNick(c, line)
        \/ JoinSubscribe(c)
        \/ JoinReply(c)
        \/ Eof(c)
        \/ ReadError(c)
        \/ Break(c)
        \/ RemoveSubscriber(c)

SpecJoin == Init /\ [][NextJoin]_vars

\* ------------------------------------------------- the registry by itself

\* The registry driven through its two mutators by arbitrary callers, one call
\* after the other as the lock has them, each subscribe call made twice over
\* with the same arguments.
RegChannels == { <<"#", "a">>, <<"#", "b">>, <<"b">> }
RegAddrs == { Addr(c) : c \in {1, 2} }

\* No subscribe call is waiting for its second time.
NoCallPending == \A io \in Conn : pc[io] = "loop"

\* subscribe_channel(io, addr, channel), a first time.
SubscribeOnce(io, addr, channel) ==
    /\ NoCallPending
    /\ SetRegistry(subscribe_channel(Registry, io, addr, channel))
    /\ pending' = [pending EXCEPT ![io] = << channel >>]
    /\ Goto(io, "again")
    /\ Step("SubscribeOnce", io)
    /\ UNCHANGED << nickname, out, broken, nread >>

\* The same call a second time.
SubscribeAgain(io) ==
    /\ pc[io] = "again"
    /\ SetRegistry(subscribe_channel(Registry, io, client_addr[io],
                                     Head(pending[io])))
    /\ pending' = [pending EXCEPT ![io] = << >>]
    /\ Goto(io, "loop")
    /\ Step("SubscribeAgain", io)
    /\ UNCHANGED << nickname, out, broken, nread >>

\* remove_subscriber(io).
Unsubscribe(io) ==
    /\ NoCallPending
    /\ SetRegistry(remove_subscriber(Registry, io))
    /\ Step("Unsubscribe", io)
    /\ UNCHANGED << pc, nickname, pending, out, broken, nread >>

NextRegistry ==
    \E io \in Conn :
        \/ \E addr \in RegAddrs, channel \in RegChannels :
              SubscribeOnce(io, addr, channel)
        \/ SubscribeAgain(io)
        \/ Unsubscribe(io)

SpecRegistry == Init /\ [][NextRegistry]_vars

\* ------------------------------------- the handlers, call by call

\* The handler threads with the lock and the stream writes as separate steps:
\* a with-block on clients_lock that touches only the registry is one step
\* taken when the lock is free; repeat_message takes the lock, writes to each
\* subscriber in turn and gives the lock back; every write begins and ends.
\* Streams do not fail in these runs.  The lines are those of one consumer
\* session and one forward.
IOLines == { L_PASS, L_NICK_A, L_JOIN_AB, L_FWD_A }

\* What is on a stream once two writes to it overlapped: some interleaving of
\* their bytes.
Torn == << "torn" >>

StepIO(ev, c, line) ==
    /\ last' = [ev |-> ev, conn |-> c, from |-> pc[c]]
    /\ lastline' = line

\* Lines 94-128, up to the first lock or write of the line's case.
IO_ReadLine(c, line) ==
    LET line_split == StripAll(SplitMax(line, 3))
    IN  /\ pc[c] = "loop"
        /\ nread < MaxLines
        /\ nread' = nread + 1
        /\ StepIO("IO_ReadLine", c, line)
        /\ UNCHANGED << broken, lock, writing, todo >>
        /\ IF StartsWith(line, COLON)
           THEN /\ UNCHANGED << nickname, pending, registry, out >>
                /\ IF Len(line_split) = 4 /\ line_split[2] = PRIVMSG
                   THEN IF ~StartsWith(line_split[3], HASH)
                        THEN Goto(c, "finally") /\ UNCHANGED fwd
                        ELSE /\ fwd' = [fwd EXCEPT ![c] = line]
                             /\ Goto(c, "forward")
                   ELSE UNCHANGED << pc, fwd >>
           ELSE IF StartsWith(line, PASS)
           THEN /\ UNCHANGED << nickname, pending, registry, out, fwd >>
                /\ Goto(c, IF nickname[c] # None THEN "auth_fail" ELSE "nick")
           ELSE IF StartsWith(line, JOIN)
           THEN HandleJoin(c, line) /\ UNCHANGED fwd
           ELSE UNCHANGED << pc, nickname, pending, registry, out, fwd >>

\* Lines 110-114: the line after PASS.
IO_ReadNick(c, line) ==
    LET nick_line == StripAll(Split(line))
    IN  /\ pc[c] = "nick"
        /\ nread < MaxLines
        /\ nread' = nread + 1
        /\ StepIO("IO_ReadNick", c, line)
        /\ UNCHANGED << pending, registry, out, broken, locking >>
        /\ IF ~NickLineOk(nick_line)
           THEN Goto(c, "bad_nick") /\ UNCHANGED nickname
           ELSE /\ nickname' = [nickname EXCEPT ![c] = nick_line[2]]
                /\ Goto(c, "welcome")

\* The positions at which the handler calls irc_stream_reply.
ReplyAt == { "welcome", "join_reply", "auth_fail", "bad_nick" }

\* What irc_stream_reply is called with at each.
ReplyText(c) ==
    CASE pc[c] = "welcome" -> Format(MSG_AUTH_SUCC, nickname[c], <<>>)
      [] pc[c] = "join_reply" ->
             Format(MSG_JOIN_SUCC, nickname[c], Head(pending[c]))
      [] pc[c] = "auth_fail" -> MSG_AUTH_FAIL
      [] pc[c] = "bad_nick" -> MSG_AUTH_INCORRECT_ORDER

\* Where the handler goes once the reply is flushed.
AfterReply(c) ==
    CASE pc[c] = "welcome" -> "subscribe_auth"
      [] pc[c] = "join_reply" ->
             IF Tail(pending[c]) = <<>> THEN "loop" ELSE "join_subscribe"
      [] pc[c] = "auth_fail" -> "finally"
      [] pc[c] = "bad_nick" -> "finally"

\* What a write of text by handler c leaves on stream s: text, or torn bytes
\* when another handler is writing to s at that time.
Written(s, c, text) ==
    IF writing[s] \ {c} # {} THEN { text, Torn } ELSE { text }

\* Line 87: irc_stream.write begins on the handler's own stream.
IO_ReplyBegin(c) ==
    /\ pc[c] \in ReplyAt
    /\ c \notin writing[c]
    /\ writing' = [writing EXCEPT ![c] = @ \cup {c}]
    /\ StepIO("IO_ReplyBegin", c, None)
    /\ UNCHANGED << pc, nickname, pending, registry, out, broken, nread,
                    lock, todo, fwd >>

\* Lines 87-89: the write and the flush are done.
IO_ReplyEnd(c) ==
    /\ pc[c] \in ReplyAt
    /\ c \in writing[c]
    /\ \E w \in Written(c, c, StreamWrite(ReplyText(c))) :
          out' = [out EXCEPT ![c] = @ \o w]
    /\ writing' = [writing EXCEPT ![c] = @ \ {c}]
    /\ pending' = [pending EXCEPT
                     ![c] = IF pc[c] = "join_reply" THEN Tail(@) ELSE @]
    /\ Goto(c, AfterReply(c))
    /\ StepIO("IO_ReplyEnd", c, None)
    /\ UNCHANGED << nickname, registry, broken, nread, lock, todo, fwd >>

\* Lines 116 and 127: subscribe_channel, with the lock for the length of the
\* call.
IO_Subscribe(c) ==
    /\ pc[c] \in {"subscribe_auth", "join_subscribe"}
    /\ lock = 0
    /\ SetRegistry(subscribe_channel(Registry, c, Addr(c),
                       IF pc[c] = "subscribe_auth" THEN AuthChannel(nickname[c])
                       ELSE Head(pending[c])))
    /\ Goto(c, IF pc[c] = "subscribe_auth" THEN "loop" ELSE "join_reply")
    /\ StepIO("IO_Subscribe", c, None)
    /\ UNCHANGED << nickname, pending, out, broken, nread, locking >>

\* Lines 45-49: repeat_message takes the lock and starts on the set of the
\* channel's subscribers, in some order.
IO_Acquire(c) ==
    /\ pc[c] = "forward"
    /\ lock = 0
    /\ lock' = c
    /\ \E order \in Orderings(Subscribers(Registry,
                                          StripAll(SplitMax(fwd[c], 3))[3])) :
          todo' = [todo EXCEPT ![c] = order]
    /\ Goto(c, "bcast")
    /\ StepIO("IO_Acquire", c, fwd[c])
    /\ UNCHANGED << nickname, pending, registry, out, broken, nread,
                    writing, fwd >>

\* Line 50: print begins on the next subscriber's stream.
IO_WriteBegin(c) ==
    /\ pc[c] = "bcast"
    /\ todo[c] # <<>>
    /\ c \notin writing[Head(todo[c])]
    /\ writing' = [writing EXCEPT ![Head(todo[c])] = @ \cup {c}]
    /\ StepIO("IO_WriteBegin", c, fwd[c])
    /\ UNCHANGED << pc, nickname, pending, registry, out, broken, nread,
                    lock, todo, fwd >>

\* Lines 50-53: print and flush are done; on to the next subscriber.
IO_WriteEnd(c) ==
    /\ pc[c] = "bcast"
    /\ todo[c] # <<>>
    /\ c \in writing[Head(todo[c])]
    /\ \E w \in Written(Head(todo[c]), c, PyPrint(fwd[c])) :
          out' = [out EXCEPT ![Head(todo[c])] = @ \o w]
    /\ writing' = [writing EXCEPT ![Head(todo[c])] = @ \ {c}]
    /\ todo' = [todo EXCEPT ![c] = Tail(@)]
    /\ StepIO("IO_WriteEnd", c, fwd[c])
    /\ UNCHANGED << pc, nickname, pending, registry, broken, nread,
                    lock, fwd >>

\* The with-block of line 45 ends: the lock is given back.
IO_Release(c) ==
    /\ pc[c] = "bcast"
    /\ todo[c] = <<>>
    /\ lock' = 0
    /\ fwd' = [fwd EXCEPT ![c] = None]
    /\ Goto(c, "loop")
    /\ StepIO("IO_Release", c, fwd[c])
    /\ UNCHANGED << nickname, pending, registry, out, broken, nread,
                    writing, todo >>

\* The stream ends, at line 94 or at line 110.
IO_Eof(c) ==
    /\ pc[c] \in {"loop", "nick"}
    /\ Goto(c, "finally")
    /\ StepIO("IO_Eof", c, None)
    /\ UNCHANGED << nickname, pending, registry, out, broken, nread, locking >>

\* IO_Remove without the call of line 133: the finally block only closes.
IO_Remove_skip(c) ==
    /\ pc[c] = "finally"
    /\ lock = 0
    /\ Goto(c, "close")
    /\ StepIO("IO_Remove", c, None)
    /\ UNCHANGED << nickname, pending, registry, out, broken, nread, locking >>

\* Line 133: remove_subscriber, with the lock for the length of the call.
IO_Remove(c) ==
    /\ pc[c] = "finally"
    /\ lock = 0
    /\ SetRegistry(remove_subscriber(Registry, c))
    /\ Goto(c, "close")
    /\ StepIO("IO_Remove", c, None)
    /\ UNCHANGED << nickname, pending, out, broken, nread, locking >>

\* Lines 134-135: the stream and the socket are closed.
IO_Close(c) ==
    /\ pc[c] = "close"
    /\ Goto(c, "closed")
    /\ StepIO("IO_Close", c, None)
    /\ UNCHANGED << nickname, pending, registry, out, broken, nread, locking >>

NextIO ==
    \E c \in Conn :
        \/ \E line \in IOLines : IO_ReadLine(c, line)
        \/ \E line \in IOLines : IO_ReadNick(c, line)
        \/ IO_ReplyBegin(c)
        \/ IO_ReplyEnd(c)
        \/ IO_Subscribe(c)
        \/ IO_Acquire(c)
        \/ IO_WriteBegin(c)
        \/ IO_WriteEnd(c)
        \/ IO_Release(c)
        \/ IO_Eof(c)
        \/ IO_Remove(c)
        \/ IO_Close(c)

SpecIO == Init /\ [][NextIO]_vars

\* ----------------------------------------------------------------- claims

CR == "\r"
LF == "\n"

\* The channels of the input lines.
CH_A == <<"#", "a">>
CH_B == <<"#", "b">>

\* The only input line that is a valid forward: to #a.
ValidForward == L_FWD_A

\* c has the forwarded line once more at the end of its stream, in whatever
\* form the stream carries it.
GotOneCopy(c) ==
    /\ Len(out'[c]) > Len(out[c])
    /\ SubSeq(out'[c], 1, Len(out[c])) = out[c]
    /\ SubSeq(out'[c], Len(out[c]) + 1, Len(out[c]) + Len(ValidForward) - 2)
           = SubSeq(ValidForward, 1, Len(ValidForward) - 2)
    /\ Len(out'[c]) - Len(out[c]) < 2 * Len(ValidForward) - 2

\* C1: when a connection forwards a valid line to #a, the line is written
\* exactly once to every connection subscribed to #a at that time (and able to
\* take it), to no other connection, and the registry stays as it was.
C1_FanOutMembership ==
    [][\A b \in Conn :
          ReadLine(b, ValidForward) =>
              /\ \A c \in Get(channel_clients, CH_A) :
                     ~broken[c] => GotOneCopy(c)
              /\ \A c \in Conn \ Get(channel_clients, CH_A) :
                     out'[c] = out[c]
              /\ UNCHANGED registry]_vars

\* C2: every copy broadcast writes to a subscriber is the forwarded line,
\* byte for byte: the stream grows by exactly the line the bridge sent.
C2_VerbatimDelivery ==
    [][\A b \in Conn :
          ReadLine(b, ValidForward) =>
              \A c \in Conn :
                  out'[c] # out[c] => out'[c] = out[c] \o ValidForward]_vars

\* C3: if the write to one subscriber fails during a broadcast, every other
\* subscriber of the channel still receives the line in that broadcast.
C3_IsolatedDelivery ==
    [][\A b \in Conn :
          ReadLine(b, ValidForward) =>
              \A f \in Get(channel_clients, CH_A) :
                  broken[f] =>
                      \A c \in Get(channel_clients, CH_A) \ {f} :
                          ~broken[c] => out'[c] # out[c]]_vars

\* C4: a failed write to a subscriber does not reach the caller: the handler
\* that forwarded the line goes on reading lines.
C4_CallerSurvives ==
    [][\A b \in Conn :
          ReadLine(b, ValidForward) =>
              ((\E f \in Get(channel_clients, CH_A) : f # b /\ broken[f])
                   => pc'[b] = "loop")]_vars

\* set.remove(subscriber_io) of line 65 finds subscriber_io in every channel
\* of its channel set: remove_subscriber raises nothing.
RemoveNeverRaises ==
    \A c \in DOMAIN client_channels :
        \A ch \in client_channels[c] :
            ch \in DOMAIN channel_clients /\ c \in channel_clients[ch]

\* C5: in every reachable state the two maps are inverses of each other, a
\* connection has an address iff it has a channel set, and no channel maps
\* to the empty set.
C5_RegistryConsistent ==
    /\ \A ch \in DOMAIN channel_clients :
           /\ channel_clients[ch] # {}
           /\ \A c \in channel_clients[ch] :
                  c \in DOMAIN client_channels /\ ch \in client_channels[c]
    /\ RemoveNeverRaises
    /\ DOMAIN client_addr = DOMAIN client_channels

\* Two connections subscribed to #a, one of them has left since and the
\* other is still a member, also of a channel it joined.
C5_Witness ==
    \E c, d \in Conn :
        /\ c # d
        /\ CH_A \in DOMAIN channel_clients
        /\ c \in channel_clients[CH_A]
        /\ pc[d] = "closed" /\ nickname[d] = <<"a">>
        /\ d \notin DOMAIN client_channels

\* What the wire carries for each reply, written out character by character.
Welcome(n) ==
    <<":tmi.twitch.tv 001 ">> \o n \o <<" :Welcome, GLHF!", CR, LF>>
    \o <<":tmi.twitch.tv 002 ">> \o n \o <<" :Your host is tmi.twitch.tv", CR, LF>>
    \o <<":tmi.twitch.tv 003 ">> \o n \o <<" :This server is rather new", CR, LF>>
    \o <<":tmi.twitch.tv 004 ">> \o n \o <<" :-", CR, LF>>
    \o <<":tmi.twitch.tv 375 ">> \o n \o <<" :-", CR, LF>>
    \o <<":tmi.twitch.tv 372 ">> \o n
    \o <<" :You are in a maze of twisty passages, all alike.", CR, LF>>
    \o <<":tmi.twitch.tv 376 ">> \o n \o <<" :>", CR, LF>>

JoinBanner(n, ch) ==
    <<":">> \o n \o <<"!">> \o n \o <<"@">> \o n
    \o <<".tmi.twitch.tv JOIN ">> \o ch \o <<CR, LF>>
    \o <<":">> \o n \o <<".tmi.twitch.tv 353 ">> \o n \o <<" = ">> \o ch
    \o <<" :">> \o n \o <<CR, LF>>

LoginAuthenticationFailed ==
    <<":tmi.twitch.tv NOTICE * :Login authentication failed", CR, LF>>

ImproperlyFormattedAuth ==
    <<":tmi.twitch.tv NOTICE * :Improperly formatted auth", CR, LF>>

\* The number of lines of a reply.
WireLines(w) == Cardinality({i \in 1..Len(w) : w[i] = LF})

\* c is in no map of the registry.
NowhereIn(c) ==
    /\ c \notin DOMAIN client_channels
    /\ c \notin DOMAIN client_addr
    /\ \A ch \in DOMAIN channel_clients : c \notin channel_clients[ch]

\* The handler of c is past its loop.
Ended(c) == pc[c] \in {"finally", "closed"}

\* C6: whatever ends the loop of a handler, the handler then removes its
\* connection from every channel it belonged to, deletes the channels it was
\* the only member of, forgets its address and closes; once it has finished,
\* the connection is nowhere in the registry.
C6_CleanupOnDisconnect ==
    [][\A c \in Conn :
          /\ (~Ended(c) /\ Ended(c)') => pc'[c] = "finally"
          /\ (pc[c] = "finally" /\ pc'[c] # "finally") =>
                 /\ pc'[c] = "closed"
                 /\ NowhereIn(c)'
                 /\ \A ch \in DOMAIN channel_clients :
                        IF channel_clients[ch] \ {c} = {}
                        THEN ch \notin DOMAIN channel_clients'
                        ELSE /\ ch \in DOMAIN channel_clients'
                             /\ channel_clients'[ch] = channel_clients[ch] \ {c}
                 /\ \A d \in DOMAIN client_channels \ {c} :
                        /\ d \in DOMAIN client_channels'
                        /\ client_channels'[d] = client_channels[d]
                        /\ client_addr'[d] = client_addr[d]
          /\ pc[c] = "closed" => (pc'[c] = "closed" /\ NowhereIn(c)')]_vars

\* A connection that had joined #a and #b has left: #a, which another
\* connection is in, has lost it, and #b, which it was alone in, is gone.
C6_Witness ==
    \E c, d \in Conn :
        /\ c # d
        /\ last = [ev |-> "RemoveSubscriber", conn |-> c, from |-> "finally"]
        /\ pc[c] = "closed"
        /\ out[c] = Welcome(<<"b">>) \o JoinBanner(<<"b">>, CH_A)
                        \o JoinBanner(<<"b">>, CH_B)
        /\ DOMAIN channel_clients = {CH_A}
        /\ channel_clients[CH_A] = {d}

\* The well-formed NICK lines among the input lines, each with its nickname.
NickLines == { <<L_NICK_A, <<"a">>>>, <<L_NICK_B, <<"b">>>> }

\* C7: on a connection without a nickname, a PASS line followed by a line
\* NICK <n> sets the nickname to n, sends the seven-line welcome banner made
\* with n, subscribes the connection to #<n> and leaves it open.
C7_AuthSuccess ==
    [][\A c \in Conn :
          /\ (ReadLine(c, L_PASS) /\ nickname[c] = None) =>
                 (pc'[c] = "nick" /\ out' = out /\ UNCHANGED registry)
          /\ \A nl \in NickLines :
                 ReadNick(c, nl[1]) =>
                     /\ nickname[c] = None
                     /\ nickname'[c] = nl[2]
                     /\ out'[c] = out[c] \o Welcome(nl[2])
                     /\ WireLines(out'[c]) = WireLines(out[c]) + 7
                     /\ c \in Get(channel_clients', <<"#">> \o nl[2])
                     /\ client_channels'[c] = {<<"#">> \o nl[2]}
                     /\ client_addr'[c] = Addr(c)
                     /\ pc'[c] = "loop"]_vars

\* A connection has just authenticated as a.
C7_Witness ==
    \E c \in Conn :
        /\ last = [ev |-> "ReadNick", conn |-> c, from |-> "nick"]
        /\ pc[c] = "loop"
        /\ nickname[c] = <<"a">>
        /\ out[c] = Welcome(<<"a">>)
        /\ c \in channel_clients[CH_A]

\* The input lines that are not a well-formed NICK line.
NotNickLines == Lines \ { nl[1] : nl \in NickLines }

\* A connection without a nickname whose handler is past its loop stays so,
\* silent and outside the registry.
EndedUnauthenticated(c) ==
    (Ended(c) /\ nickname[c] = None) =>
        /\ Ended(c)'
        /\ out'[c] = out[c]
        /\ nickname'[c] = None
        /\ NowhereIn(c)'

\* C8: if the line after PASS is not the two tokens NICK <name>, the server
\* sends the Improperly formatted auth notice and nothing else, assigns no
\* nickname, leaves the connection out of the registry and closes it without
\* handling another line.
C8_AuthMalformed ==
    [][\A c \in Conn :
          /\ \A line \in NotNickLines :
                 ReadNick(c, line) =>
                     /\ out'[c] = ImproperlyFormattedAuth
                     /\ nickname'[c] = None
                     /\ UNCHANGED registry
                     /\ NowhereIn(c)
                     /\ pc'[c] = "finally"
          /\ EndedUnauthenticated(c)]_vars

\* A connection was closed after the notice, which is all it was ever sent.
C8_Witness ==
    \E c \in Conn :
        /\ pc[c] = "closed"
        /\ out[c] = ImproperlyFormattedAuth
        /\ nickname[c] = None

\* C9, as claimed: if the stream ends after a PASS line and before the NICK
\* line, the server replies with the Improperly formatted auth notice.
C9_NoticeOnStreamEnd ==
    [][\A c \in Conn :
          (Eof(c) /\ pc[c] = "nick") =>
              out'[c] = out[c] \o ImproperlyFormattedAuth]_vars

\* C9, amended: if the stream ends after a PASS line and before the NICK
\* line, the server sends nothing, assigns no nickname, leaves the registry as
\* it was and closes the connection.
C9_SilentOnStreamEnd ==
    [][\A c \in Conn :
          /\ (Eof(c) /\ pc[c] = "nick") =>
                 /\ out' = out
                 /\ out[c] = <<>>
                 /\ nickname'[c] = None
                 /\ UNCHANGED registry
                 /\ pc'[c] = "finally"
          /\ (Ended(c) /\ nickname[c] = None /\ out[c] = <<>>) =>
                 (Ended(c)' /\ out'[c] = <<>>)]_vars

\* The stream of a connection has just ended where the NICK line was due.
C9_Witness ==
    \E c \in Conn :
        /\ last = [ev |-> "Eof", conn |-> c, from |-> "nick"]
        /\ pc[c] = "finally"
        /\ out[c] = <<>>

\* C10: a PASS line on a connection that has a nickname yields the Login
\* authentication failed notice, no new nickname and no read of a NICK line,
\* then the closing of the connection with all its subscriptions removed; a
\* nickname, once assigned, never changes.
C10_DoubleAuthRejected ==
    [][\A c \in Conn :
          /\ (ReadLine(c, L_PASS) /\ nickname[c] # None) =>
                 /\ out'[c] = out[c] \o LoginAuthenticationFailed
                 /\ pc'[c] = "finally"
                 /\ UNCHANGED << nickname, registry >>
          /\ nickname[c] # None => nickname'[c] = nickname[c]
          /\ (pc[c] = "finally" /\ pc'[c] # "finally") =>
                 (pc'[c] = "closed" /\ NowhereIn(c)' /\ nread' = nread)]_vars

\* A connection authenticated as a, joined #a and #b, sent PASS again, got the
\* notice and was closed; the registry holds nothing of it.
C10_Witness ==
    \E c \in Conn :
        /\ pc[c] = "closed"
        /\ nickname[c] = <<"a">>
        /\ out[c] = Welcome(<<"a">>) \o JoinBanner(<<"a">>, CH_A)
                        \o JoinBanner(<<"a">>, CH_B)
                        \o LoginAuthenticationFailed
        /\ NowhereIn(c)


\* ------------------------------------------------------------- C11, C12

\* The fields line 97 makes of a line.
Fields(line) == StripAll(SplitMax(line, 3))

BridgeLines == { line \in Lines : StartsWith(line, COLON) }

\* Bridge lines with fewer than four fields.
ShortLines == { line \in BridgeLines : Len(Fields(line)) < 4 }

\* Bridge lines that line 98 does not take for a PRIVMSG to forward.
UnparseableLines ==
    { line \in BridgeLines : Len(Fields(line)) < 4 \/ Fields(line)[2] # PRIVMSG }

\* Four-field PRIVMSG lines whose channel field does not start with "#".
NoHashLines ==
    { line \in BridgeLines \ UnparseableLines :
        ~StartsWith(Fields(line)[3], HASH) }

\* C11 as stated: a ":"-prefixed line that does not have four fields, or whose
\* channel field lacks the "#", sends its connection to teardown and delivers
\* nothing.
C11_MalformedBridgeFatal ==
    [][\A c \in Conn : \A line \in ShortLines \cup NoHashLines :
          ReadLine(c, line) => pc'[c] = "finally" /\ out' = out]_vars

\* C11 amended: only a four-field PRIVMSG line whose channel field lacks the
\* "#" sends its connection to teardown, with nothing delivered and the
\* registry untouched; a line with fewer than four fields leaves its connection
\* in the read loop.
C11_NoHashFatal ==
    [][\A c \in Conn :
          /\ \A line \in NoHashLines :
                ReadLine(c, line) =>
                    pc'[c] = "finally" /\ out' = out /\ UNCHANGED registry
          /\ \A line \in ShortLines :
                ReadLine(c, line) => pc'[c] = "loop" /\ out' = out]_vars

\* A connection has just sent a PRIVMSG for the channel "a" while another is
\* subscribed to "#a": the sender is in its finally block and the subscriber
\* has its welcome banner only.
C11_Witness ==
    \E c, d \in Conn :
        /\ c # d
        /\ last = [ev |-> "ReadLine", conn |-> c, from |-> "loop"]
        /\ lastline = L_FWD_NOHASH
        /\ pc[c] = "finally"
        /\ d \in Subscribers(Registry, CH_A)
        /\ out[d] = Welcome(<<"a">>)

\* C12: a ":"-prefixed line with fewer than four fields, or whose second field
\* is not PRIVMSG, changes nothing: nothing is delivered, the connection stays
\* in its read loop, registry and nicknames are as before; and a valid forward
\* that the same connection sends next reaches every subscriber of its channel
\* when no subscriber's stream is broken.
C12_UnparseableIgnored ==
    [][\A c \in Conn :
          /\ \A line \in UnparseableLines :
                ReadLine(c, line) =>
                    UNCHANGED << pc, out, registry, nickname, pending, broken >>
          /\ ( /\ last.conn = c
               /\ lastline \in UnparseableLines
               /\ ReadLine(c, ValidForward)
               /\ \A d \in Conn : ~broken[d] )
             => /\ pc'[c] = "loop"
                /\ \A d \in Conn :
                      out'[d] = IF d \in Subscribers(Registry, CH_A)
                                THEN out[d] \o PyPrint(ValidForward)
                                ELSE out[d]]_vars

\* A connection that is in no registry map has just sent a three-field line
\* while another is subscribed to "#a": the sender is still in its read loop
\* and the subscriber has its welcome banner only.
C12_Witness ==
    \E c, d \in Conn :
        /\ c # d
        /\ last = [ev |-> "ReadLine", conn |-> c, from |-> "loop"]
        /\ lastline \in UnparseableLines
        /\ pc[c] = "loop"
        /\ c \notin DOMAIN client_addr
        /\ d \in Subscribers(Registry, CH_A)
        /\ out[d] = Welcome(<<"a">>)

\* ------------------------------------------------------------------ C13

JoinLines ==
    { line \in Lines : /\ ~StartsWith(line, COLON)
                       /\ ~StartsWith(line, PASS)
                       /\ StartsWith(line, JOIN) }

\* JOIN lines that line 122 rejects.
MalformedJoinLines ==
    { line \in JoinLines :
        Len(StripAll(Split(line))) # 2 \/ StripAll(Split(line))[1] # JOIN }

\* C14: a line starting with JOIN from a connection without a nickname, or one
\* that is not the two tokens JOIN <list>, sends the connection to its finally
\* block with the registry and every stream as they were: no subscription, no
\* join banner.  From the finally block the connection only goes on to closed,
\* and gains no subscription on the way.
C14_FatalJoin ==
    [][\A c \in Conn :
          /\ \A line \in JoinLines :
                ( ReadLine(c, line)
                  /\ (nickname[c] = None \/ line \in MalformedJoinLines) )
                => /\ pc'[c] = "finally"
                   /\ UNCHANGED << registry, out, pending, nickname >>
          /\ pc[c] = "finally" =>
                /\ pc'[c] \in {"finally", "closed"}
                /\ c \in DOMAIN client_channels' =>
                      /\ c \in DOMAIN client_channels
                      /\ client_channels'[c] \subseteq client_channels[c]
                /\ \A ch \in DOMAIN channel_clients' :
                      c \in channel_clients'[ch] =>
                          /\ ch \in DOMAIN channel_clients
                          /\ c \in channel_clients[ch]]_vars

\* A connection authenticated as "a" has just sent a malformed JOIN line: it is
\* in its finally block, subscribed to "#a" only, with its welcome banner only.
C14_Witness ==
    \E c \in Conn :
        /\ last = [ev |-> "ReadLine", conn |-> c, from |-> "loop"]
        /\ lastline \in MalformedJoinLines
        /\ nickname[c] = <<"a">>
        /\ pc[c] = "finally"
        /\ client_channels[c] = {CH_A}
        /\ out[c] = Welcome(<<"a">>)

\* ------------------------------------------------------------------ C15

\* The entries of the well-formed JOIN lines, as written in them.
ListedEntries(line) ==
    IF line = L_JOIN_AB THEN << CH_A, CH_B >>
    ELSE IF line = L_JOIN_ODD THEN << <<"b">>, <<>>, <<"b">> >>
    ELSE << >>

WellFormedJoinLines == { L_JOIN_AB, L_JOIN_ODD }

\* The channels io is subscribed to, none when it is not in the registry.
ChannelsOf(io) ==
    IF io \in DOMAIN client_channels THEN client_channels[io] ELSE {}

\* C15: on a connection with a nickname a well-formed JOIN line queues its
\* comma-separated entries exactly as written and in order; each entry in turn
\* is subscribed as it stands (the connection is added to that channel's set
\* and the channel to the connection's set, a set, so an entry seen before
\* changes nothing; every other channel's set and every earlier subscription
\* of the connection stays) and then, the stream not being broken, answered
\* with one join banner that names the entry and the joiner's nickname only;
\* all along the connection keeps its "#<nickname>" subscription.
C15_JoinSuccess ==
    [][\A c \in Conn :
          /\ \A line \in WellFormedJoinLines :
                nickname[c] # None /\ ReadLine(c, line) =>
                    /\ pending'[c] = ListedEntries(line)
                    /\ pc'[c] = "join_subscribe"
                    /\ UNCHANGED << registry, out, nickname >>
          /\ JoinSubscribe(c) =>
                LET ch == Head(pending[c])
                IN  /\ DOMAIN channel_clients' = DOMAIN channel_clients \cup {ch}
                    /\ channel_clients'[ch] = Get(channel_clients, ch) \cup {c}
                    /\ client_channels'[c] = ChannelsOf(c) \cup {ch}
                    /\ client_addr'[c] = Addr(c)
                    /\ \A x \in DOMAIN channel_clients \ {ch} :
                          channel_clients'[x] = channel_clients[x]
                    /\ \A d \in DOMAIN client_channels \ {c} :
                          client_channels'[d] = client_channels[d]
                    /\ UNCHANGED << out, pending, nickname >>
          /\ JoinReply(c) /\ ~broken[c] =>
                /\ out'[c] = out[c] \o JoinBanner(nickname[c], Head(pending[c]))
                /\ \A d \in Conn \ {c} : out'[d] = out[d]
                /\ pending'[c] = Tail(pending[c])
                /\ pc'[c] = IF Tail(pending[c]) = <<>> THEN "loop"
                            ELSE "join_subscribe"
                /\ UNCHANGED << registry, nickname >>
          /\ ( nickname[c] # None
               /\ pc[c] \in {"loop", "join_subscribe", "join_reply"} )
             => AuthChannel(nickname[c]) \in ChannelsOf(c)]_vars

\* A connection authenticated as "a" has been through "JOIN b,,b": it is back
\* in its read loop with the three banners after its welcome banner, in list
\* order, subscribed to "#a", "b" and "", and alone in the channel "b".
C15_Witness ==
    \E c \in Conn :
        /\ last = [ev |-> "JoinReply", conn |-> c, from |-> "join_reply"]
        /\ pc[c] = "loop"
        /\ nickname[c] = <<"a">>
        /\ out[c] = Welcome(<<"a">>) \o JoinBanner(<<"a">>, <<"b">>)
                        \o JoinBanner(<<"a">>, <<>>)
                        \o JoinBanner(<<"a">>, <<"b">>)
        /\ client_channels[c] = {CH_A, <<"b">>, <<>>}
        /\ channel_clients[<<"b">>] = {c}

\* ------------------------------------------------------------------ C16

\* Consumer lines that start none of the cases of lines 105 and 117.
OtherLines ==
    { line \in Lines : /\ ~StartsWith(line, COLON)
                       /\ ~StartsWith(line, PASS)
                       /\ ~StartsWith(line, JOIN) }

\* C16 as stated: a consumer line of no expected shape, read in the loop, ends
\* its connection.
C16_MalformedAlwaysFatal ==
    [][\A c \in Conn : \A line \in OtherLines \cup MalformedJoinLines :
          ReadLine(c, line) => pc'[c] = "finally"]_vars

\* C16 amended: a line that starts a command and is malformed ends its
\* connection (a JOIN line that is not JOIN <list>; a line after PASS that is
\* not NICK <name>): the connection leaves its loop for the finally block, no
\* other connection's handler moves, the finally block leads to closed with
\* the connection out of the registry, and a closed connection stays closed.
\* A line that starts with neither ":", PASS nor JOIN and is read in the loop
\* is skipped: positions, streams, registry and nicknames stay as they were.
C16_MalformedCommandFatal ==
    [][\A c \in Conn :
          /\ \A line \in MalformedJoinLines :
                ReadLine(c, line) =>
                    /\ pc'[c] = "finally"
                    /\ \A d \in Conn \ {c} : pc'[d] = pc[d]
          /\ \A line \in NotNickLines :
                ReadNick(c, line) =>
                    /\ pc'[c] = "finally"
                    /\ \A d \in Conn \ {c} : pc'[d] = pc[d]
          /\ \A line \in OtherLines :
                ReadLine(c, line) =>
                    UNCHANGED << pc, out, registry, nickname, pending, broken >>
          /\ pc[c] = "finally" => pc'[c] \in {"finally", "closed"}
          /\ (pc[c] = "finally" /\ pc'[c] = "closed") => NowhereIn(c)'
          /\ pc[c] = "closed" => pc'[c] = "closed"]_vars

\* A connection authenticated as "a" has just sent a line that is no command
\* the handler knows: it is still in its read loop, subscribed, with its
\* welcome banner only.
C16_Witness ==
    \E c \in Conn :
        /\ last = [ev |-> "ReadLine", conn |-> c, from |-> "loop"]
        /\ lastline \in OtherLines
        /\ nickname[c] = <<"a">>
        /\ pc[c] = "loop"
        /\ client_channels[c] = {CH_A}
        /\ out[c] = Welcome(<<"a">>)

\* ------------------------------------------------------------------ C17

\* C17: in every registry state the mutators produce, for every connection,
\* address and channel, subscribe applied to the result of subscribe gives
\* that result again; and a second subscribe call with the arguments of the
\* first leaves the three maps as the first left them.
C17_SubscribeIdempotent ==
    [][/\ \A io \in Conn : \A addr \in RegAddrs : \A channel \in RegChannels :
            subscribe_channel(
                subscribe_channel(Registry, io, addr, channel),
                io, addr, channel)
              = subscribe_channel(Registry, io, addr, channel)
       /\ \A io \in Conn : SubscribeAgain(io) => UNCHANGED registry]_vars

\* A second subscribe call has just returned: its connection is in two
\* channels, one of them shared with another connection.
C17_Witness ==
    \E io, other \in Conn :
        /\ io # other
        /\ last = [ev |-> "SubscribeAgain", conn |-> io, from |-> "again"]
        /\ client_channels[io] = {CH_A, CH_B}
        /\ channel_clients[CH_A] = {io, other}
        /\ channel_clients[CH_B] = {io}
        /\ client_addr[io] # client_addr[other]

\* ------------------------------------------------------------------ C18

\* C18 as stated: a handler that holds the registry lock is in no stream
\* write.
C18_NoWriteUnderLock ==
    \A c \in Conn : lock = c => \A s \in Conn : c \notin writing[s]

\* ------------------------------------------------------------------ C19

\* C19 as stated: while the handler of a connection is in a reply write on its
\* own stream, no other handler is in a write on that stream.
C19_NoOverlappingWrites ==
    \A s \in Conn : s \in writing[s] => writing[s] = {s}

\* ------------------------------------------------------------------ C20

\* The welcome banner of s is on its stream, whole, and its write is over.
BannerDone(s) ==
    /\ nickname[s] # None
    /\ pc[s] # "welcome"
    /\ Len(out[s]) >= Len(Welcome(nickname[s]))
    /\ SubSeq(out[s], 1, Len(Welcome(nickname[s]))) = Welcome(nickname[s])

\* The handler of s is past remove_subscriber in its finally block.
Removed(s) == pc[s] \in {"close", "closed"}

\* C20: a broadcast write to the stream of s begins and ends only with the
\* welcome banner of s written and flushed and with s not yet past
\* remove_subscriber, hence not closed; a connection is in the registry or in
\* the list of a broadcast in progress only under the same two conditions; and
\* once s is past remove_subscriber nothing more is put on its stream and no
\* write to it is in progress.
C20_DeliveryBracketed ==
    [][\A s \in Conn :
          /\ \A c \in Conn :
                ( (IO_WriteBegin(c) \/ IO_WriteEnd(c)) /\ Head(todo[c]) = s )
                => BannerDone(s) /\ ~Removed(s)
          /\ \A c \in Conn :
                (\E i \in 1..Len(todo[c]) : todo[c][i] = s)
                => BannerDone(s) /\ ~Removed(s)
          /\ s \in DOMAIN client_channels => BannerDone(s) /\ ~Removed(s)
          /\ Removed(s) =>
                /\ out'[s] = out[s]
                /\ writing[s] = {}
                /\ writing'[s] = {}
                /\ Removed(s)']_vars

\* A broadcast has just ended that found a connection closed which an earlier
\* broadcast had written to: the stream of that connection holds its welcome
\* banner and then the one forwarded line.
C20_Witness ==
    \E c, s \in Conn :
        /\ c # s
        /\ last = [ev |-> "IO_Release", conn |-> c, from |-> "bcast"]
        /\ lastline = ValidForward
        /\ pc[s] = "closed"
        /\ out[s] = Welcome(<<"a">>) \o PyPrint(ValidForward)

====
